---- MODULE Spec2Model ----
(***************************************************************************)
(* A model of the two stateful parts of paddle-rust-sdk:                   *)
(*   - Paginated (src/src/paginated.rs), the cursor over list endpoints,   *)
(*     together with Paddle::send (src/src/lib.rs) and a list server;      *)
(*   - Paddle::unmarshal (src/src/lib.rs) with Signature::from_str and     *)
(*     Signature::verify (src/src/webhooks.rs).                            *)
(* Text (URLs, query strings, headers, bodies) is a sequence of tokens,    *)
(* each token a string; parsers split these sequences as the code splits   *)
(* its strings.                                                            *)
(***************************************************************************)
EXTENDS Integers, Sequences, FiniteSets, TLC

VARIABLES
    pages,        \* the list server's pages, in server order
    kinds,        \* for each page, how the server wrote its pagination
    constructed,  \* whether Paginated::new has run
    path,         \* Paginated.path
    query,        \* Paginated.query : Option<Value>
    error,        \* Paginated.error : Option<Error>
    filter,       \* the filter object handed to Paginated::new
    calls,        \* history: one record per finished call of Paginated::next
    allState,     \* position of a running all(): "idle", "running", "done"
    acc,          \* items collected so far by all()
    allResult,    \* what all() returned
    hook,         \* a call of Paddle::unmarshal: its inputs, steps and result
    check,        \* a call of Signature::verify: its inputs and result
    parsed,       \* a header with Signature::from_str's results on it
    pair          \* two cursors over one client: their states and calls

vars == <<pages, kinds, constructed, path, query, error, filter, calls,
          allState, acc, allResult, hook, check, parsed, pair>>

(***************************************************************************)
(* Bounds                                                                  *)
(***************************************************************************)
MaxPages == 3      \* pages the server holds
MaxCalls == 4      \* calls of Paginated::next in one behaviour
MaxItems == 2      \* items on one page

(***************************************************************************)
(* Option and Result                                                       *)
(***************************************************************************)
None == [tag |-> "None"]
Some(x) == [tag |-> "Some", val |-> x]
Ok(x) == [tag |-> "Ok", val |-> x]
Err(k) == [tag |-> "Err", kind |-> k]

(***************************************************************************)
(* str::split: the pieces of s between the occurrences of c.               *)
(***************************************************************************)
FirstIdx(s, c) ==
    IF \E i \in 1..Len(s) : s[i] = c
    THEN CHOOSE i \in 1..Len(s) : s[i] = c /\ \A j \in 1..(i - 1) : s[j] # c
    ELSE 0

RECURSIVE Split(_, _)
Split(s, c) ==
    LET i == FirstIdx(s, c) IN
    IF i = 0 THEN <<s>>
    ELSE <<SubSeq(s, 1, i - 1)>> \o Split(SubSeq(s, i + 1, Len(s)), c)

RECURSIVE Flatten(_)
Flatten(ss) == IF Len(ss) = 0 THEN <<>> ELSE Head(ss) \o Flatten(Tail(ss))

(***************************************************************************)
(* URLs.  "https://sandbox-api.paddle.com/customers?after=c1" is           *)
(* <<"https:", "//", "sandbox-api.paddle.com", "/", "customers", "?",      *)
(*   "after", "=", "c1">>.                                                 *)
(***************************************************************************)
Schemes == {"https:", "http:"}
BaseUrl == [scheme |-> "https:", host |-> "sandbox-api.paddle.com"]

\* Url::parse, after the scheme and the query are split off: beforeQuery is
\* the authority and the path, p the place of the first "/" in it
UrlWithPath(scheme, beforeQuery, p, q) ==
    IF (IF p = 0 THEN Len(beforeQuery) ELSE p - 1) # 1 THEN Err("Url")
    ELSE Ok([scheme |-> scheme,
             host |-> beforeQuery[1],
             path |-> IF p = 0 THEN <<"/">>
                      ELSE SubSeq(beforeQuery, p, Len(beforeQuery)),
             query |-> q])

\* Url::parse, after the scheme: q is the place of the first "?" in rest
UrlSplitQuery(scheme, rest, q) ==
    IF q = 0 THEN UrlWithPath(scheme, rest, FirstIdx(rest, "/"), None)
    ELSE UrlWithPath(scheme, SubSeq(rest, 1, q - 1),
                     FirstIdx(SubSeq(rest, 1, q - 1), "/"),
                     Some(SubSeq(rest, q + 1, Len(rest))))

UrlAfterScheme(scheme, rest) == UrlSplitQuery(scheme, rest, FirstIdx(rest, "?"))

\* a Url::parse that resolves a URL without a scheme against the base URL
UrlParse_Lenient(s) ==
    IF Len(s) > 0 /\ s[1] \in Schemes
    THEN UrlAfterScheme(s[1], IF Len(s) >= 2 /\ s[2] = "//"
                              THEN SubSeq(s, 3, Len(s)) ELSE Tail(s))
    ELSE UrlAfterScheme("https:", <<"sandbox-api.paddle.com">> \o s)

\* Url::parse: a URL needs a scheme and, for http(s), a host; the path runs
\* to the first "?", and what follows it is the query.
UrlParse(s) ==
    IF Len(s) = 0 \/ s[1] \notin Schemes THEN Err("Url")
    ELSE UrlAfterScheme(s[1], IF Len(s) >= 2 /\ s[2] = "//"
                              THEN SubSeq(s, 3, Len(s)) ELSE Tail(s))

\* Url::path
UrlPath(url) == url.path

\* Url::query
UrlQuery(url) == url.query

(***************************************************************************)
(* serde_json::Value as used for queries: an object is a function from     *)
(* keys to values, a value is [ty, s] with s its text.  Keys and text are  *)
(* token sequences.                                                        *)
(***************************************************************************)
EmptyMap == [k \in {} |-> None]
Str(s) == [ty |-> "str", s |-> s]
Num(s) == [ty |-> "num", s |-> s]

\* The keys of the list endpoints in the order of serde_json's Map (sorted).
KeyOrder == << <<"after">>, <<"order_by">>, <<"per_page">> >>

\* A token that no percent-decoding turns into UTF-8.
BadEscape == "%FF"

\* serde_qs::from_str into Map<String, Value>: pairs are separated by "&",
\* key and value by the first "="; every value is a string.
QsFromStr(s) ==
    LET pieces == SelectSeq(Split(s, "&"), LAMBDA p : Len(p) > 0)
        keyOf(p) == LET i == FirstIdx(p, "=") IN
                    IF i = 0 THEN p ELSE SubSeq(p, 1, i - 1)
        valOf(p) == LET i == FirstIdx(p, "=") IN
                    IF i = 0 THEN <<>> ELSE SubSeq(p, i + 1, Len(p))
        keys == {keyOf(pieces[i]) : i \in 1..Len(pieces)}
        last(k) == CHOOSE i \in 1..Len(pieces) :
                       /\ keyOf(pieces[i]) = k
                       /\ \A j \in (i + 1)..Len(pieces) : keyOf(pieces[j]) # k
    IN  IF \E i \in 1..Len(s) : s[i] = BadEscape THEN Err("QueryString")
        ELSE Ok([k \in keys |-> Str(valOf(pieces[last(k)]))])

\* serde_qs::to_string of an object: key=value pairs in the map's order.
RECURSIVE QsPairs(_, _)
QsPairs(m, i) ==
    IF i > Len(KeyOrder) THEN <<>>
    ELSE (IF KeyOrder[i] \in DOMAIN m
          THEN << KeyOrder[i] \o <<"=">> \o m[KeyOrder[i]].s >>
          ELSE <<>>) \o QsPairs(m, i + 1)

RECURSIVE JoinWith(_, _)
JoinWith(ss, sep) ==
    IF Len(ss) = 0 THEN <<>>
    ELSE IF Len(ss) = 1 THEN ss[1]
    ELSE ss[1] \o <<sep>> \o JoinWith(Tail(ss), sep)

QsToString(m) == JoinWith(QsPairs(m, 1), "&")

\* Url::join of a path onto the base URL: a path starting with "/" replaces
\* the base's path, one starting with "//" names another host as well.
UrlJoin(base, p) ==
    IF Len(p) >= 2 /\ p[1] = "/" /\ p[2] = "/"
    THEN IF Len(p) = 2 \/ p[3] \in {"/", "?"} THEN Err("Url")
         ELSE Ok([scheme |-> base.scheme, host |-> p[3],
                  path |-> IF Len(p) > 3 THEN SubSeq(p, 4, Len(p))
                           ELSE <<"/">>,
                  query |-> None])
    ELSE IF Len(p) >= 1 /\ p[1] = "/"
    THEN Ok([scheme |-> base.scheme, host |-> base.host, path |-> p,
             query |-> None])
    ELSE Ok([scheme |-> base.scheme, host |-> base.host,
             path |-> <<"/">> \o p, query |-> None])

(***************************************************************************)
(* The list server.  Page i is reached by the request without an "after"   *)
(* parameter (i = 1) or with after = CursorIds[i - 1].                     *)
(***************************************************************************)
CursorIds == <<"c1", "c2", "c3", "c4", "c5", "c6">>
ListPath == <<"/", "customers">>
AltPath == <<"/", "v2", "/", "customers">>
ServerPaths == {ListPath, AltPath}

LinkKinds == {"abs", "alt", "rel", "empty", "badqs", "noquery", "slashes",
              "last", "lastalt", "lastbad", "none"}
MoreKinds == {"abs", "alt", "rel", "empty", "badqs", "noquery", "slashes"}

\* a host that is not the client's
OtherHost == "files.example"

\* pagination.next of page i as the server writes it
NextUrl(kind, i) ==
    CASE kind \in {"abs", "last"} ->
            <<"https:", "//", "sandbox-api.paddle.com">> \o ListPath
            \o <<"?", "after", "=", CursorIds[i], "&", "per_page", "=", "2">>
      [] kind \in {"alt", "lastalt"} ->
            <<"https:", "//", "api.paddle.com">> \o AltPath
            \o <<"?", "after", "=", CursorIds[i]>>
      [] kind = "slashes" ->
            <<"https:", "//", "sandbox-api.paddle.com", "/", "/", OtherHost>>
            \o ListPath \o <<"?", "after", "=", CursorIds[i]>>
      [] kind = "rel" ->
            ListPath \o <<"?", "after", "=", CursorIds[i]>>
      [] kind = "badqs" ->
            <<"https:", "//", "sandbox-api.paddle.com">> \o ListPath
            \o <<"?", "after", "=", BadEscape>>
      [] kind = "noquery" ->
            <<"https:", "//", "sandbox-api.paddle.com">> \o ListPath
      [] OTHER -> <<>>

\* SuccessResponse<Vec<T>>: items and Meta with Option<Pagination>
Page(kind, i, n) ==
    [data |-> [j \in 1..n |-> <<i, j>>],
     meta |-> [request_id |-> i,
               pagination |->
                   IF kind = "none" THEN None
                   ELSE Some([per_page |-> 2,
                              next |-> NextUrl(kind, i),
                              has_more |-> kind \in MoreKinds,
                              estimated_total |-> 0])]]

\* the value of a key in a query string, as the server reads it
ParamOf(qs, key) ==
    LET pieces == Split(qs, "&")
        hit(p) == Len(p) > Len(key) /\ SubSeq(p, 1, Len(key) + 1) = key \o <<"=">>
    IN  IF \E i \in 1..Len(pieces) : hit(pieces[i])
        THEN LET i == CHOOSE i \in 1..Len(pieces) : hit(pieces[i])
             IN  Some(SubSeq(pieces[i], Len(key) + 2, Len(pieces[i])))
        ELSE None

\* the index of the page a request asks for, 0 if there is none (a
\* request to another host meets no page of this server)
PageIndex(pgs, url) ==
    LET after == ParamOf(url.query.val, <<"after">>) IN
    IF url.host # BaseUrl.host \/ url.path \notin ServerPaths THEN 0
    ELSE IF after = None THEN 1
    ELSE IF \E i \in 1..(Len(pgs) - 1) : after.val = <<CursorIds[i]>>
    THEN 1 + (CHOOSE i \in 1..(Len(pgs) - 1) : after.val = <<CursorIds[i]>>)
    ELSE 0

\* the envelope the server answers with: Response::Success or Response::Error
ServerRespond(pgs, request) ==
    LET i == PageIndex(pgs, request.url) IN
    IF i = 0 THEN [tag |-> "Error"]
    ELSE [tag |-> "Success", page |-> pgs[i]]

(***************************************************************************)
(* Paddle::send.  net is what happens to the HTTP exchange: "ok",          *)
(* "transport" (no response), "decode" (a body that is no envelope) or     *)
(* "api_error" (the server answers with an error envelope).                *)
(***************************************************************************)
NetOutcomes == {"ok", "transport", "decode", "api_error"}

\* an exchange that sends its request a second time
Exchange_SendsTwice(pgs, request, net) ==
    [sent |-> <<request, request>>,
     out |-> IF net \in {"transport", "decode"} THEN Err("Request")
             ELSE IF net = "api_error" THEN Err("PaddleApi")
             ELSE IF ServerRespond(pgs, request).tag = "Success"
             THEN Ok(ServerRespond(pgs, request).page)
             ELSE Err("PaddleApi")]

\* the exchange of one request: what was sent and what came back
Exchange(pgs, request, net) ==
    [sent |-> <<request>>,
     out |-> IF net \in {"transport", "decode"} THEN Err("Request")
             ELSE IF net = "api_error" THEN Err("PaddleApi")
             ELSE IF ServerRespond(pgs, request).tag = "Success"
             THEN Ok(ServerRespond(pgs, request).page)
             ELSE Err("PaddleApi")]

SendTo(pgs, joined, req, method, net) ==
    IF joined.tag = "Err" THEN [sent |-> <<>>, out |-> joined]
    ELSE Exchange(pgs,
                  [method |-> method,
                   url |-> IF method = "GET"
                           THEN [joined.val EXCEPT
                                    !.query = Some(QsToString(req))]
                           ELSE joined.val],
                  net)

Send(pgs, req, method, p, net) ==
    SendTo(pgs, UrlJoin(BaseUrl, p), req, method, net)

(***************************************************************************)
(* Paginated                                                               *)
(***************************************************************************)
\* the filters handed to Paginated::new; ok tells whether serde_json can
\* serialize the filter
Filters ==
    { [ok |-> TRUE,
       val |-> [k \in {<<"order_by">>, <<"per_page">>} |->
                   IF k = <<"per_page">> THEN Num(<<"2">>)
                   ELSE Str(<<"id[ASC]">>)]],
      [ok |-> TRUE, val |-> EmptyMap],
      [ok |-> FALSE, val |-> EmptyMap] }

\* serde_json::to_value
ToValue(f) == IF f.ok THEN Ok(f.val) ELSE Err("JsonError")

\* Paginated::new that keeps a default query beside the serialization error
NewCursor_KeepsDefaultQuery(p, f) ==
    [path |-> p,
     query |-> IF ToValue(f).tag = "Ok" THEN Some(ToValue(f).val)
               ELSE Some(EmptyMap),
     error |-> IF ToValue(f).tag = "Ok" THEN None ELSE Some(ToValue(f).kind)]

\* Paginated::new that drops the serialization error
NewCursor_DropsError(p, f) ==
    [path |-> p,
     query |-> IF ToValue(f).tag = "Ok" THEN Some(ToValue(f).val) ELSE None,
     error |-> None]

\* Paginated::new
NewCursor(p, f) ==
    [path |-> p,
     query |-> IF ToValue(f).tag = "Ok" THEN Some(ToValue(f).val) ELSE None,
     error |-> IF ToValue(f).tag = "Ok" THEN None ELSE Some(ToValue(f).kind)]

HasMore(page) ==
    /\ page.meta.pagination # None
    /\ page.meta.pagination.val.has_more

\* the query of the next URL, decoded (or the default, an empty map)
DecodeQuery(url) ==
    IF UrlQuery(url) = None THEN Ok(EmptyMap)
    ELSE QsFromStr(UrlQuery(url).val)

\* storing the link without replacing the cursor's path
StoreLink_KeepsPath(c, page, url, q) ==
    IF q.tag = "Err" THEN [cur |-> c, result |-> q]
    ELSE [cur |-> [c EXCEPT !.query = Some(q.val)],
          result |-> Ok(Some(page))]

\* Paginated::next, lines 47 to 53: the path is replaced, then the decoded
\* query q is stored unless decoding failed
StoreLink(c, page, url, q) ==
    IF q.tag = "Err"
    THEN [cur |-> [c EXCEPT !.path = UrlPath(url)], result |-> q]
    ELSE [cur |-> [c EXCEPT !.path = UrlPath(url), !.query = Some(q.val)],
          result |-> Ok(Some(page))]

\* Paginated::next, lines 46 to 53: url is what Url::parse gave
FollowLink(c, page, url) ==
    IF url.tag = "Err" THEN [cur |-> c, result |-> url]
    ELSE StoreLink(c, page, url.val, DecodeQuery(url.val))

\* the branch after a successful send that never stores a following query
OnSuccess_NoAdvance(c, page) ==
    [cur |-> c, result |-> Ok(Some(page))]

\* the branch after a successful send that reports exhaustion in place of
\* the last page
OnSuccess_DropsLastPage(c, page) ==
    IF HasMore(page)
    THEN FollowLink(c, page, UrlParse(page.meta.pagination.val.next))
    ELSE [cur |-> c, result |-> Ok(None)]

\* the branch after a successful send that starts over when the response
\* has no pagination metadata
OnSuccess_NoMetaRestarts(c, page) ==
    IF page.meta.pagination = None
    THEN [cur |-> [c EXCEPT !.query = Some(EmptyMap)],
          result |-> Ok(Some(page))]
    ELSE IF page.meta.pagination.val.has_more
    THEN FollowLink(c, page, UrlParse(page.meta.pagination.val.next))
    ELSE [cur |-> c, result |-> Ok(Some(page))]

\* the branch after a successful send that parses the next URL whatever
\* has_more says
OnSuccess_ParsesLastLink(c, page) ==
    IF page.meta.pagination # None
    THEN FollowLink(c, page, UrlParse(page.meta.pagination.val.next))
    ELSE [cur |-> c, result |-> Ok(Some(page))]

\* Paginated::next, the branch after a successful send: c is the cursor
\* with its query already taken
OnSuccess(c, page) ==
    IF HasMore(page)
    THEN FollowLink(c, page, UrlParse(page.meta.pagination.val.next))
    ELSE [cur |-> c, result |-> Ok(Some(page))]

\* the branch without a pending query that starts the listing over
OnExhausted_Restarts(c) ==
    [cur |-> [c EXCEPT !.query = Some(EmptyMap)], result |-> Ok(None),
     sent |-> <<>>, net |-> "none", resp |-> None]

\* Paginated::next, the branch without a pending query
OnExhausted(c) ==
    [cur |-> c, result |-> Ok(None), sent |-> <<>>, net |-> "none",
     resp |-> None]

\* the record of a call that made the exchange s and ended as r
Finish(r, s, net) ==
    [cur |-> r.cur, result |-> r.result, sent |-> s.sent, net |-> net,
     resp |-> Some(s.out)]

\* Paginated::next after the send: taken is the cursor without its query
AfterSend(taken, s, net) ==
    IF s.out.tag = "Err" THEN Finish([cur |-> taken, result |-> s.out], s, net)
    ELSE Finish(OnSuccess(taken, s.out.val), s, net)

\* a next that returns the construction error without taking it
NextCall_KeepsError(c, pgs, net) ==
    IF c.error # None
    THEN [cur |-> c, result |-> Err(c.error.val),
          sent |-> <<>>, net |-> "none", resp |-> None]
    ELSE IF c.query # None
    THEN AfterSend([c EXCEPT !.query = None],
                   Send(pgs, c.query.val, "GET", c.path, net), net)
    ELSE OnExhausted(c)

\* Paginated::next on cursor c against the server's pages
NextCall(c, pgs, net) ==
    IF c.error # None
    THEN [cur |-> [c EXCEPT !.error = None], result |-> Err(c.error.val),
          sent |-> <<>>, net |-> "none", resp |-> None]
    ELSE IF c.query # None
    THEN AfterSend([c EXCEPT !.query = None],
                   Send(pgs, c.query.val, "GET", c.path, net), net)
    ELSE OnExhausted(c)

Cursor == [path |-> path, query |-> query, error |-> error]

CallRecord(r, by) ==
    [before |-> Cursor, after |-> r.cur, net |-> r.net, sent |-> r.sent,
     resp |-> r.resp, result |-> r.result, by |-> by]

(***************************************************************************)
(* Webhook signatures.  A header is a sequence of characters, a body and   *)
(* a secret are sequences of tokens.                                       *)
(***************************************************************************)
Digits == <<"0", "1", "2", "3", "4", "5", "6", "7", "8", "9">>
HexDigits == Digits \o <<"a", "b", "c", "d", "e", "f">>
UpperHex == <<"A", "B", "C", "D", "E", "F">>

IndexIn(seq, c) == CHOOSE i \in 1..Len(seq) : seq[i] = c
IsIn(seq, c) == \E i \in 1..Len(seq) : seq[i] = c

IsDigit(c) == IsIn(Digits, c)
DigitVal(c) == IndexIn(Digits, c) - 1
IsHex(c) == IsIn(HexDigits, c) \/ IsIn(UpperHex, c)
HexVal(c) == IF IsIn(HexDigits, c) THEN IndexIn(HexDigits, c) - 1
             ELSE IndexIn(UpperHex, c) + 9

RECURSIVE DigitsValue(_)
DigitsValue(s) ==
    IF Len(s) = 0 THEN 0
    ELSE 10 * DigitsValue(SubSeq(s, 1, Len(s) - 1)) + DigitVal(s[Len(s)])

\* str::parse::<i64>: an optional sign and at least one digit, digits only
\* (the headers of this model are too short to overflow an i64)
ParseI64(s) ==
    LET signed == Len(s) > 0 /\ s[1] \in {"+", "-"}
        ds == IF signed THEN Tail(s) ELSE s
    IN  IF Len(ds) = 0 \/ \E i \in 1..Len(ds) : ~IsDigit(ds[i])
        THEN Err("ParseIntError")
        ELSE Ok(IF signed /\ s[1] = "-" THEN 0 - DigitsValue(ds)
                ELSE DigitsValue(ds))

\* a from_str_radix that reads the low digit of a pair first
ParseHexPair_LowDigitFirst(pr) ==
    IF IsHex(pr[1]) /\ IsHex(pr[2]) THEN Ok(HexVal(pr[1]) + 16 * HexVal(pr[2]))
    ELSE IF pr[1] = "+" /\ IsHex(pr[2]) THEN Ok(HexVal(pr[2]))
    ELSE Err("ParseIntError")

\* u8::from_str_radix(pair, 16) on a two-character slice
ParseHexPair(pr) ==
    IF IsHex(pr[1]) /\ IsHex(pr[2]) THEN Ok(16 * HexVal(pr[1]) + HexVal(pr[2]))
    ELSE IF pr[1] = "+" /\ IsHex(pr[2]) THEN Ok(HexVal(pr[2]))
    ELSE Err("ParseIntError")

\* decode_hex: the pairs are decoded in order and the first failure ends
\* the decoding; slicing two characters where one is left panics
RECURSIVE DecodeHex(_)
DecodeBytes(b, rest) ==
    IF rest.tag = "Ok" THEN Ok(<<b>> \o rest.val) ELSE rest

DecodePair(b, s) ==
    IF b.tag = "Err" THEN b
    ELSE DecodeBytes(b.val, DecodeHex(SubSeq(s, 3, Len(s))))

DecodeHex(s) ==
    IF Len(s) = 0 THEN Ok(<<>>)
    ELSE IF Len(s) = 1 THEN [tag |-> "Panic"]
    ELSE DecodePair(ParseHexPair(SubSeq(s, 1, 2)), s)

\* DateTime::from_timestamp(secs, 0) (the timestamps of this model are in
\* chrono's range)
FromTimestamp(secs) == Some(secs)

\* Signature::from_str, the loop over the parts: st holds the timestamp
\* and signature found so far
RECURSIVE SigParts(_, _)
SigTs(n, rest, st) ==
    IF n.tag = "Err" THEN n
    ELSE SigParts(rest, [st EXCEPT !.timestamp = FromTimestamp(n.val)])

\* a loop body that takes the h1 value only once the timestamp is found
SigPart_H1AfterTs(key_value, rest, st) ==
    IF Len(key_value) # 2 THEN Err("PaddleSignature::InvalidPartFormat")
    ELSE IF key_value[1] = <<"t", "s">>
    THEN SigTs(ParseI64(key_value[2]), rest, st)
    ELSE IF key_value[1] = <<"h", "1">> /\ st.timestamp # None
    THEN SigParts(rest, [st EXCEPT !.signature = Some(key_value[2])])
    ELSE SigParts(rest, st)

\* Signature::from_str, the body of the loop over the parts
SigPart(key_value, rest, st) ==
    IF Len(key_value) # 2 THEN Err("PaddleSignature::InvalidPartFormat")
    ELSE IF key_value[1] = <<"t", "s">>
    THEN SigTs(ParseI64(key_value[2]), rest, st)
    ELSE IF key_value[1] = <<"h", "1">>
    THEN SigParts(rest, [st EXCEPT !.signature = Some(key_value[2])])
    ELSE SigParts(rest, st)

SigParts(parts, st) ==
    IF Len(parts) = 0 THEN Ok(st)
    ELSE SigPart(Split(Head(parts), "="), Tail(parts), st)

\* Signature::from_str, lines 97 to 100
SigDecoded(timestamp, bytes) ==
    IF bytes.tag # "Ok" THEN bytes
    ELSE Ok([timestamp |-> timestamp, signature |-> bytes.val])

\* Signature::from_str, lines 93 to 100
SigZip(found) ==
    IF found.tag = "Err" THEN found
    ELSE IF found.val.timestamp = None \/ found.val.signature = None
    THEN Err("PaddleSignature::InvalidFormat")
    ELSE SigDecoded(found.val.timestamp.val,
                    DecodeHex(found.val.signature.val))

\* a from_str that accepts more than two parts
SigSplit_AtLeastTwo(signature_parts) ==
    IF Len(signature_parts) < 2 THEN Err("PaddleSignature::InvalidFormat")
    ELSE SigZip(SigParts(signature_parts,
                         [timestamp |-> None, signature |-> None]))

\* Signature::from_str, lines 70 to 100
SigSplit(signature_parts) ==
    IF Len(signature_parts) # 2 THEN Err("PaddleSignature::InvalidFormat")
    ELSE SigZip(SigParts(signature_parts,
                         [timestamp |-> None, signature |-> None]))

\* Signature::from_str
SigFromStr(s) ==
    IF Len(s) = 0 THEN Err("PaddleSignature::Empty")
    ELSE SigSplit(Split(s, ";"))

\* DateTime::format("%s"): the decimal Unix seconds
RECURSIVE NatDecimal(_)
NatDecimal(n) ==
    IF n < 10 THEN <<Digits[n + 1]>>
    ELSE NatDecimal(n \div 10) \o <<Digits[(n % 10) + 1]>>

FormatSeconds(n) == IF n < 0 THEN <<"-">> \o NatDecimal(0 - n) ELSE NatDecimal(n)

\* The tokens of secrets, bodies and signed payloads and their byte codes.
CodeTable == Digits \o <<":", "-", "k1", "k2", "{", "}", "customer.created",
                        "future.event">>
Code(c) == IndexIn(CodeTable, c)

\* HMAC-SHA256 as an ideal MAC: distinct (key, message) pairs have distinct
\* tags, and no tag is the beginning of another (all tags of HMAC-SHA256
\* have one length).  The tag is the key's length, the key's and the
\* message's codes, and a closing 0.
HmacSha256(key, msg) ==
    <<Len(key)>> \o [i \in 1..Len(key) |-> Code(key[i])]
                 \o [i \in 1..Len(msg) |-> Code(msg[i])]
                 \o <<0>>

\* a verify that compares the MAC before it looks at the timestamp
Verify_MacFirst(sig, request_body, key, maximum_variance, now) ==
    IF HmacSha256(key, FormatSeconds(sig.timestamp) \o <<":">>
                       \o request_body) # sig.signature
    THEN Err("MacError")
    ELSE IF /\ maximum_variance # None
            /\ \/ now.secs > sig.timestamp + maximum_variance.val
               \/ /\ now.secs = sig.timestamp + maximum_variance.val
                  /\ now.frac > 0
    THEN [tag |-> "Err", kind |-> "PaddleSignature::MaxVarianceExceeded",
          bound |-> maximum_variance.val]
    ELSE Ok(<<>>)

\* a verify that rejects a signature as old as the bound exactly
Verify_StaleAtBound(sig, request_body, key, maximum_variance, now) ==
    IF /\ maximum_variance # None
       /\ now.secs >= sig.timestamp + maximum_variance.val
    THEN [tag |-> "Err", kind |-> "PaddleSignature::MaxVarianceExceeded",
          bound |-> maximum_variance.val]
    ELSE IF HmacSha256(key, FormatSeconds(sig.timestamp) \o <<":">>
                            \o request_body) = sig.signature
    THEN Ok(<<>>)
    ELSE Err("MacError")

\* a verify whose signed payload leaves the timestamp out
Verify_UnsignedTimestamp(sig, request_body, key, maximum_variance, now) ==
    IF /\ maximum_variance # None
       /\ \/ now.secs > sig.timestamp + maximum_variance.val
          \/ /\ now.secs = sig.timestamp + maximum_variance.val
             /\ now.frac > 0
    THEN [tag |-> "Err", kind |-> "PaddleSignature::MaxVarianceExceeded",
          bound |-> maximum_variance.val]
    ELSE IF HmacSha256(key, request_body) = sig.signature
    THEN Ok(<<>>)
    ELSE Err("MacError")

\* a verify that also rejects a timestamp further in the future than the
\* bound
Verify_TwoSided(sig, request_body, key, maximum_variance, now) ==
    IF /\ maximum_variance # None
       /\ \/ now.secs > sig.timestamp + maximum_variance.val
          \/ /\ now.secs = sig.timestamp + maximum_variance.val
             /\ now.frac > 0
          \/ sig.timestamp > now.secs + maximum_variance.val
    THEN [tag |-> "Err", kind |-> "PaddleSignature::MaxVarianceExceeded",
          bound |-> maximum_variance.val]
    ELSE IF HmacSha256(key, FormatSeconds(sig.timestamp) \o <<":">>
                            \o request_body) = sig.signature
    THEN Ok(<<>>)
    ELSE Err("MacError")

\* Signature::verify; now is [secs, frac], frac the part of a second
Verify(sig, request_body, key, maximum_variance, now) ==
    IF /\ maximum_variance # None
       /\ \/ now.secs > sig.timestamp + maximum_variance.val
          \/ /\ now.secs = sig.timestamp + maximum_variance.val
             /\ now.frac > 0
    THEN [tag |-> "Err", kind |-> "PaddleSignature::MaxVarianceExceeded",
          bound |-> maximum_variance.val]
    ELSE IF HmacSha256(key, FormatSeconds(sig.timestamp) \o <<":">>
                            \o request_body) = sig.signature
    THEN Ok(<<>>)
    ELSE Err("MacError")

\* serde_json::from_str::<Event>: an object with a known event_type
KnownEventTypes == {"customer.created"}

\* a deserialization that reports its failure as a MAC mismatch
EventFromStr_AsMacError(body) ==
    IF /\ Len(body) = 3
       /\ body[1] = "{" /\ body[3] = "}"
       /\ body[2] \in KnownEventTypes
    THEN Ok([event_type |-> body[2]])
    ELSE Err("MacError")

EventFromStr(body) ==
    IF /\ Len(body) = 3
       /\ body[1] = "{" /\ body[3] = "}"
       /\ body[2] \in KnownEventTypes
    THEN Ok([event_type |-> body[2]])
    ELSE Err("JsonError")

\* Paddle::unmarshal, lines 148 to 152: v is what verify gave
UnmarshalVerified(v, request_body) ==
    IF v.tag # "Ok" THEN [steps |-> <<"parse", "verify">>, result |-> v]
    ELSE [steps |-> <<"parse", "verify", "deserialize">>,
          result |-> EventFromStr(request_body)]

\* a Paddle::unmarshal that does not verify the signature
UnmarshalParsed_SkipsVerify(sig, request_body, secret_key, maximum_variance, now) ==
    IF sig.tag # "Ok" THEN [steps |-> <<"parse">>, result |-> sig]
    ELSE [steps |-> <<"parse", "deserialize">>,
          result |-> EventFromStr(request_body)]

\* Paddle::unmarshal, lines 147 to 152: sig is what the parse gave
UnmarshalParsed(sig, request_body, secret_key, maximum_variance, now) ==
    IF sig.tag # "Ok" THEN [steps |-> <<"parse">>, result |-> sig]
    ELSE UnmarshalVerified(Verify(sig.val, request_body, secret_key,
                                  maximum_variance, now),
                           request_body)

\* Paddle::unmarshal, with the steps it ran
Unmarshal(request_body, secret_key, signature, maximum_variance, now) ==
    UnmarshalParsed(SigFromStr(signature), request_body, secret_key,
                    maximum_variance, now)

(***************************************************************************)
(* The webhook requests of the model                                       *)
(***************************************************************************)
Secrets == {<<"k1">>, <<"k2">>}
Bodies == { <<"{", "customer.created", "}">>,
            <<"{", "future.event", "}">>,
            <<"{", "customer.created">> }
SignedAt == 100

\* MaximumVariance::default, in seconds
DefaultVariance == 5
Variances == {None, Some(DefaultVariance)}
Nows == { [secs |-> 99, frac |-> 0], [secs |-> 100, frac |-> 0],
          [secs |-> 105, frac |-> 0], [secs |-> 105, frac |-> 1],
          [secs |-> 200, frac |-> 0] }

\* the sender's side: hex of the MAC bytes and the header text
RECURSIVE HexOf(_)
HexOf(bytes) ==
    IF Len(bytes) = 0 THEN <<>>
    ELSE <<HexDigits[(Head(bytes) \div 16) + 1],
           HexDigits[(Head(bytes) % 16) + 1]>> \o HexOf(Tail(bytes))

SenderMac(key, ts, body) == HmacSha256(key, NatDecimal(ts) \o <<":">> \o body)
TsPart(ts) == <<"t", "s", "=">> \o NatDecimal(ts)
H1Part(bytes) == <<"h", "1", "=">> \o HexOf(bytes)

\* headers with what they were made from: form says whether the header is
\* well-formed, key and body what the sender signed, intact whether the
\* MAC is the sender's
SignedHeaders ==
    { [text |-> TsPart(SignedAt) \o <<";">> \o H1Part(SenderMac(k, SignedAt, b)),
       form |-> "good", key |-> k, body |-> b, intact |-> TRUE] :
        k \in Secrets, b \in Bodies }

OtherHeaders ==
    LET k == <<"k1">>
        b == <<"{", "customer.created", "}">>
        mac == SenderMac(k, SignedAt, b)
        h(text, form, intact) ==
            [text |-> text, form |-> form, key |-> k, body |-> b,
             intact |-> intact]
    IN  { h(H1Part(mac) \o <<";">> \o TsPart(SignedAt), "good", TRUE),
          h(TsPart(SignedAt) \o <<";">> \o H1Part([mac EXCEPT ![1] = 2]),
            "good", FALSE),
          h(TsPart(SignedAt) \o <<";">> \o H1Part(<<>>), "good", FALSE),
          h(<<>>, "bad", FALSE),
          h(TsPart(SignedAt) \o H1Part(mac), "bad", FALSE),
          h(TsPart(SignedAt) \o <<";">> \o H1Part(mac) \o <<";">>, "bad", FALSE),
          h(<<"t", "s">> \o <<";">> \o H1Part(mac), "bad", FALSE),
          h(<<"t", "s", "=", "1", "a">> \o <<";">> \o H1Part(mac), "bad", FALSE),
          h(<<"v", "1", "=", "1">> \o <<";">> \o H1Part(mac), "bad", FALSE),
          h(TsPart(SignedAt) \o <<";", "h", "1", "=", "z", "z">>, "bad", FALSE),
          h(TsPart(SignedAt) \o <<";", "h", "1", "=", "0", "1", "a">>, "bad",
            FALSE) }

HeaderCases == SignedHeaders \cup OtherHeaders

(***************************************************************************)
(* The calls of Signature::verify of the model                             *)
(***************************************************************************)
\* timestamps a signature carries: the epoch, a bound before SignedAt,
\* SignedAt, and a time far after every now of the model
Stamps == {0, SignedAt - DefaultVariance, SignedAt, 2 * SignedAt}

\* MaximumVariance(None), MaximumVariance::seconds(0), the default, and a
\* negative Duration (the field is a public Option<Duration>, and
\* MaximumVariance::seconds(u64::MAX) is Duration::seconds(-1))
VerifyVariances == {None, Some(0), Some(DefaultVariance), Some(0 - 1)}

\* Utc::now(): around SignedAt and around SignedAt plus the default bound
VerifyNows ==
    { [secs |-> SignedAt + d, frac |-> f] :
        d \in {0 - 1, 0, DefaultVariance, DefaultVariance + 1}, f \in {0, 1} }

\* what the sender did: the MAC of body under key at second ts, sent as
\* it is ("intact"), with a byte changed ("changed") or a byte short ("cut")
Damages == {"intact", "changed", "cut"}

Damaged(mac, how) ==
    IF how = "changed" THEN [mac EXCEPT ![1] = @ + 1]
    ELSE IF how = "cut" THEN SubSeq(mac, 1, Len(mac) - 1)
    ELSE mac

Made ==
    { [key |-> k, ts |-> t, body |-> b, how |-> h] :
        k \in Secrets, t \in Stamps, b \in Bodies, h \in Damages }

(***************************************************************************)
(* The headers given to Signature::from_str.  A header is made of parts    *)
(* joined by ";"; a part is key=value or a text with no "=" or several.    *)
(* Every value is listed with what it reads as: int is its integer, if it  *)
(* is a decimal integer; hex its bytes, if it is a string of hex-digit     *)
(* pairs, NotHex if some pair is not two hex digits, Odd if a digit is     *)
(* left over.                                                              *)
(***************************************************************************)
NotHex == [tag |-> "NotHex"]
Odd == [tag |-> "Odd"]

HeaderValues ==
    { [text |-> FormatSeconds(SignedAt), int |-> Some(SignedAt), hex |-> Odd],
      [text |-> FormatSeconds(0 - DefaultVariance),
       int |-> Some(0 - DefaultVariance), hex |-> NotHex],
      [text |-> <<"+", "7">>, int |-> Some(7), hex |-> NotHex],
      [text |-> <<"0", "0", "1", "2">>, int |-> Some(12),
       hex |-> Some(<<0, 18>>)],
      [text |-> HexOf(<<171, 255>>), int |-> None, hex |-> Some(<<171, 255>>)],
      [text |-> <<"A", "b", "F", "f">>, int |-> None,
       hex |-> Some(<<171, 255>>)],
      [text |-> <<>>, int |-> None, hex |-> Some(<<>>)],
      [text |-> <<"1", "a">>, int |-> None, hex |-> Some(<<26>>)],
      [text |-> <<"z", "z">>, int |-> None, hex |-> NotHex],
      [text |-> <<"0", "0", "g", "1">>, int |-> None, hex |-> NotHex],
      [text |-> <<"a", "b", "c">>, int |-> None, hex |-> Odd] }

TsKey == <<"t", "s">>
H1Key == <<"h", "1">>
HeaderKeys == {TsKey, H1Key, <<"v", "1">>}

\* eqs is the number of "=" in the part's text
KvParts ==
    { [text |-> k \o <<"=">> \o v.text, eqs |-> 1, key |-> k, val |-> v] :
        k \in HeaderKeys, v \in HeaderValues }

NoValue == [text |-> <<>>, int |-> None, hex |-> NotHex]

RawParts ==
    { [text |-> <<>>, eqs |-> 0, key |-> <<>>, val |-> NoValue],
      [text |-> TsKey, eqs |-> 0, key |-> <<>>, val |-> NoValue],
      [text |-> TsKey \o <<"=", "1", "=", "2">>, eqs |-> 2, key |-> <<>>,
       val |-> NoValue],
      [text |-> H1Key \o <<"=", "a", "b", "=">>, eqs |-> 2, key |-> <<>>,
       val |-> NoValue],
      [text |-> TsKey \o <<"=">> \o FormatSeconds(SignedAt) \o H1Key
                \o <<"=">> \o HexOf(<<171, 255>>),
       eqs |-> 2, key |-> <<>>, val |-> NoValue] }

HeaderParts == KvParts \cup RawParts

\* a well-formed pair of parts, for the headers of three parts
GoodPair ==
    { <<a, b>> : a \in {q \in KvParts : q.key = TsKey /\ q.val.int = Some(SignedAt)},
                 b \in {q \in KvParts : q.key = H1Key
                                         /\ q.val.hex = Some(<<171, 255>>)} }

\* the headers, as their parts: none, one, any two, and a well-formed pair
\* followed by a third part
HeaderInputs ==
    {<<>>} \cup { <<a>> : a \in HeaderParts }
           \cup (HeaderParts \X HeaderParts)
           \cup { g \o <<c>> : g \in GoodPair, c \in HeaderParts }

RECURSIVE HeaderText(_)
HeaderText(parts) ==
    IF Len(parts) = 0 THEN <<>>
    ELSE IF Len(parts) = 1 THEN parts[1].text
    ELSE parts[1].text \o <<";">> \o HeaderText(Tail(parts))

RECURSIVE Reversed(_)
Reversed(sq) ==
    IF Len(sq) = 0 THEN <<>> ELSE Reversed(Tail(sq)) \o <<Head(sq)>>

(***************************************************************************)
(* Actions                                                                 *)
(***************************************************************************)
InitialPaths == {ListPath}

PaginatedNew ==
    /\ ~constructed
    /\ \E p \in InitialPaths, f \in Filters :
        \E c \in {NewCursor(p, f)} :
            /\ path' = c.path
            /\ query' = c.query
            /\ error' = c.error
            /\ filter' = f
    /\ constructed' = TRUE
    /\ UNCHANGED <<pair, pages, kinds, calls, allState, acc, allResult, hook,
                   check, parsed>>

PaginatedNext ==
    /\ constructed
    /\ allState # "running"
    /\ Len(calls) < MaxCalls
    /\ \E net \in NetOutcomes :
        \E r \in {NextCall(Cursor, pages, net)} :
            /\ path' = r.cur.path
            /\ query' = r.cur.query
            /\ error' = r.cur.error
            /\ calls' = Append(calls, CallRecord(r, "next"))
    /\ UNCHANGED <<pair, pages, kinds, constructed, filter, allState, acc,
                   allResult, hook, check, parsed>>

\* all(): start of the loop
AllStart ==
    /\ constructed
    /\ allState = "idle"
    /\ allState' = "running"
    /\ acc' = <<>>
    /\ UNCHANGED <<pair, pages, kinds, constructed, path, query, error, filter,
                   calls, allResult, hook, check, parsed>>

\* all(): one turn of the loop, a call of next and what is done with its
\* result
AllStep ==
    /\ allState = "running"
    /\ Len(calls) < MaxCalls
    /\ \E net \in NetOutcomes :
        \E r \in {NextCall(Cursor, pages, net)} :
            /\ path' = r.cur.path
            /\ query' = r.cur.query
            /\ error' = r.cur.error
            /\ calls' = Append(calls, CallRecord(r, "all"))
            /\ IF r.result.tag = "Err"
               THEN /\ allState' = "done"
                    /\ allResult' = Some(r.result)
                    /\ acc' = acc
               ELSE IF r.result.val = None
               THEN /\ allState' = "done"
                    /\ allResult' = Some(Ok(acc))
                    /\ acc' = acc
               ELSE /\ allState' = "running"
                    /\ allResult' = allResult
                    /\ acc' = acc \o r.result.val.val.data
    /\ UNCHANGED <<pair, pages, kinds, constructed, filter, hook, check, parsed>>

\* one call of Paddle::unmarshal on the request drawn at the start
PaddleUnmarshal ==
    /\ hook # None
    /\ hook.val.steps = <<>>
    /\ \E c \in {hook.val} :
        \E r \in {Unmarshal(c.body, c.secret, c.header.text,
                            c.maximum_variance, c.now)} :
            hook' = Some([c EXCEPT !.steps = r.steps, !.result = r.result])
    /\ UNCHANGED <<pair, pages, kinds, constructed, path, query, error, filter,
                   calls, allState, acc, allResult, check, parsed>>

\* one call of Signature::verify on the signature drawn at the start
SignatureVerify ==
    /\ check # None
    /\ check.val.result = None
    /\ \E c \in {check.val} :
        \E r \in {Verify(c.sig, c.body, c.key, c.maximum_variance, c.now)} :
            check' = Some([c EXCEPT !.result = Some(r)])
    /\ UNCHANGED <<pair, pages, kinds, constructed, path, query, error, filter,
                   calls, allState, acc, allResult, hook, parsed>>

\* one call of Signature::from_str on the header drawn at the start
SignatureFromStr ==
    /\ parsed # None
    /\ parsed.val.result = None
    /\ \E r \in {SigFromStr(parsed.val.text)} :
        parsed' = Some([parsed.val EXCEPT !.result = Some(r)])
    /\ UNCHANGED <<pair, pages, kinds, constructed, path, query, error, filter,
                   calls, allState, acc, allResult, hook, check>>

\* one call of Signature::from_str on the header with its parts in the
\* opposite order
SignatureFromStrSwapped ==
    /\ parsed # None
    /\ parsed.val.swapped = None
    /\ \E r \in {SigFromStr(HeaderText(Reversed(parsed.val.parts)))} :
        parsed' = Some([parsed.val EXCEPT !.swapped = Some(r)])
    /\ UNCHANGED <<pair, pages, kinds, constructed, path, query, error, filter,
                   calls, allState, acc, allResult, hook, check>>

\* a cursor that keeps its pending query where the other cursor reads it
CursorsAfter_SharedQuery(cs, i, r) ==
    [j \in DOMAIN cs |->
        IF j = i THEN r.cur ELSE [cs[j] EXCEPT !.query = r.cur.query]]

\* Paginated::next takes &mut self: the call r of cursor i changes the
\* fields of cursor i and of no other
CursorsAfter(cs, i, r) == [cs EXCEPT ![i] = r.cur]

\* what a call of next on cursor c did
PairRecord(c, r) ==
    [before |-> c, after |-> r.cur, net |-> r.net, sent |-> r.sent,
     resp |-> r.resp, result |-> r.result]

PairNets == {"ok", "transport"}

\* one call of Paginated::next on one of two cursors over the same client
PairNext ==
    /\ pair # None
    /\ Len(pair.val.order) < MaxCalls
    /\ \E i \in 1..2, net \in PairNets :
        \E r \in {NextCall(pair.val.cur[i], pages, net)} :
            pair' = Some([pair.val EXCEPT
                            !.cur = CursorsAfter(@, i, r),
                            !.log[i] = Append(@, PairRecord(pair.val.cur[i], r)),
                            !.order = Append(@, i)])
    /\ UNCHANGED <<pages, kinds, constructed, path, query, error, filter,
                   calls, allState, acc, allResult, hook, check, parsed>>

(***************************************************************************)
(* Specifications                                                          *)
(***************************************************************************)
\* page i of every server of Spec holds PageSize(i) items
PageSize(i) == i % (MaxItems + 1)

InitCursor ==
    /\ constructed = FALSE
    /\ path = <<>>
    /\ query = None
    /\ error = None
    /\ filter = [ok |-> TRUE, val |-> EmptyMap]
    /\ calls = <<>>
    /\ allState = "idle"
    /\ acc = <<>>
    /\ allResult = None
    /\ hook = None
    /\ check = None
    /\ parsed = None
    /\ pair = None

\* the links that lead to the following page; a listing ends with the
\* first page that has no such link, as no request reaches a page behind it
OnwardKinds == {"abs", "alt"}

Listing(k, last) ==
    {ks \in [1..k -> LinkKinds] :
        /\ \A i \in 1..(k - 1) : ks[i] \in OnwardKinds
        /\ ks[k] \in last}

Init ==
    /\ \E k \in 1..MaxPages : kinds \in Listing(k, LinkKinds)
    /\ pages = [i \in DOMAIN kinds |-> Page(kinds[i], i, PageSize(i))]
    /\ InitCursor

Next == PaginatedNew \/ PaginatedNext

Spec == Init /\ [][Next]_vars

AllKinds == {"abs", "rel", "last", "none"}

InitAll ==
    /\ \E k \in 1..MaxPages :
        \E ks \in Listing(k, AllKinds), sizes \in [1..k -> 0..MaxItems] :
            /\ kinds = ks
            /\ pages = [i \in 1..k |-> Page(ks[i], i, sizes[i])]
    /\ InitCursor

InitHook ==
    /\ kinds = <<>>
    /\ pages = <<>>
    /\ constructed = FALSE
    /\ path = <<>>
    /\ query = None
    /\ error = None
    /\ filter = [ok |-> TRUE, val |-> EmptyMap]
    /\ calls = <<>>
    /\ allState = "idle"
    /\ acc = <<>>
    /\ allResult = None
    /\ check = None
    /\ parsed = None
    /\ pair = None
    /\ \E h \in HeaderCases, b \in Bodies, k \in Secrets,
          mv \in Variances, now \in Nows :
        hook = Some([header |-> h, body |-> b, secret |-> k,
                     maximum_variance |-> mv, now |-> now,
                     steps |-> <<>>, result |-> None])

NextHook == PaddleUnmarshal

SpecHook == InitHook /\ [][NextHook]_vars

NextAll == PaginatedNew \/ AllStart \/ AllStep

SpecAll == InitAll /\ [][NextAll]_vars

\* no listing and no cursor
InitNoCursor ==
    /\ kinds = <<>>
    /\ pages = <<>>
    /\ constructed = FALSE
    /\ path = <<>>
    /\ query = None
    /\ error = None
    /\ filter = [ok |-> TRUE, val |-> EmptyMap]
    /\ calls = <<>>
    /\ allState = "idle"
    /\ acc = <<>>
    /\ allResult = None
    /\ pair = None

InitVerify ==
    /\ InitNoCursor
    /\ hook = None
    /\ parsed = None
    /\ \E m \in Made, t \in Stamps, b \in Bodies, k \in Secrets,
          mv \in VerifyVariances, now \in VerifyNows :
        check = Some([made |-> m,
                      sig |-> [timestamp |-> t,
                               signature |-> Damaged(SenderMac(m.key, m.ts,
                                                               m.body),
                                                     m.how)],
                      body |-> b, key |-> k, maximum_variance |-> mv,
                      now |-> now, result |-> None])

NextVerify == SignatureVerify

SpecVerify == InitVerify /\ [][NextVerify]_vars

InitParse ==
    /\ InitNoCursor
    /\ hook = None
    /\ check = None
    /\ \E ps \in HeaderInputs :
        parsed = Some([parts |-> ps, text |-> HeaderText(ps),
                       result |-> None, swapped |-> None])

NextParse == SignatureFromStr \/ SignatureFromStrSwapped

SpecParse == InitParse /\ [][NextParse]_vars

\* the list endpoints the two cursors are started on
PairPaths == ServerPaths

InitPair ==
    /\ \E k \in 1..MaxPages : kinds \in Listing(k, {"last"})
    /\ pages = [i \in DOMAIN kinds |-> Page(kinds[i], i, PageSize(i))]
    /\ constructed = FALSE
    /\ path = <<>>
    /\ query = None
    /\ error = None
    /\ filter = [ok |-> TRUE, val |-> EmptyMap]
    /\ calls = <<>>
    /\ allState = "idle"
    /\ acc = <<>>
    /\ allResult = None
    /\ hook = None
    /\ check = None
    /\ parsed = None
    /\ \E p1 \in PairPaths, p2 \in PairPaths, f1 \in Filters, f2 \in Filters :
        \E cs \in {<<NewCursor(p1, f1), NewCursor(p2, f2)>>} :
            pair = Some([start |-> cs, cur |-> cs, log |-> <<<<>>, <<>>>>,
                         order |-> <<>>])

NextPair == PairNext

SpecPair == InitPair /\ [][NextPair]_vars

(***************************************************************************)
(* What the claims speak about                                             *)
(***************************************************************************)
\* no pagination metadata, or has_more = false
NoMore(page) ==
    \/ page.meta.pagination = None
    \/ ~page.meta.pagination.val.has_more

IsPage(result) == result.tag = "Ok" /\ result.val # None

\* call i made an executor call and got a success envelope
Succeeded(i) == calls[i].resp # None /\ calls[i].resp.val.tag = "Ok"

\* the page call i was answered with, and how the server wrote its link
PageOf(i) == calls[i].resp.val.val
KindOf(i) == kinds[PageOf(i).meta.request_id]

\* the server is the one of the pagination property: every page but the
\* last has has_more = true and an absolute next URL to the following page,
\* the last has has_more = false
WellBehaved ==
    /\ \A i \in 1..(Len(kinds) - 1) : kinds[i] \in {"abs", "alt"}
    /\ kinds[Len(kinds)] \in {"last", "lastbad"}

\* no failure of the HTTP exchange was injected so far
NoInjectedFailure == \A i \in 1..Len(calls) : calls[i].net \in {"ok", "none"}

\* the links that are absolute URLs with a decodable query string
GoodLinks == {"abs", "alt", "noquery"}

\* what the server put into the next URL of page i, written out
LinkPath(kind) == IF kind = "alt" THEN AltPath ELSE ListPath

LinkParams(kind, i) ==
    CASE kind = "abs" ->
            [k \in {<<"after">>, <<"per_page">>} |->
                IF k = <<"after">> THEN Str(<<CursorIds[i]>>)
                ELSE Str(<<"2">>)]
      [] kind = "alt" -> [k \in {<<"after">>} |-> Str(<<CursorIds[i]>>)]
      [] OTHER -> EmptyMap

LinkQuery(kind, i) ==
    CASE kind = "abs" ->
            <<"after", "=", CursorIds[i], "&", "per_page", "=", "2">>
      [] kind = "alt" -> <<"after", "=", CursorIds[i]>>
      [] OTHER -> <<>>

\* the GET request for a path and a written-out query string
GetRequest(p, qs) ==
    [method |-> "GET",
     url |-> [scheme |-> "https:", host |-> "sandbox-api.paddle.com",
              path |-> p, query |-> Some(qs)]]

\* the query string of the first request of a cursor
FilterQuery ==
    IF <<"per_page">> \in DOMAIN filter.val
    THEN <<"order_by", "=", "id[ASC]", "&", "per_page", "=", "2">>
    ELSE <<>>

\* the request that fetches page i of a well-behaved server
PageRequest(i) ==
    IF i = 1 THEN GetRequest(ListPath, FilterQuery)
    ELSE GetRequest(LinkPath(kinds[i - 1]), LinkQuery(kinds[i - 1], i - 1))

(***************************************************************************)
(* C1: against a server of k pages, pages 1..k-1 with has_more = true and  *)
(* a next URL, page k with has_more = false, and with no failing exchange, *)
(* the first k calls of next on a fresh cursor return the pages 1..k in    *)
(* server order with one executor call each, and every later call returns  *)
(* Ok(None) with no executor call.                                         *)
(***************************************************************************)
C1_DrainReturnsPagesInOrder ==
    (constructed /\ filter.ok /\ WellBehaved /\ NoInjectedFailure) =>
        \A i \in 1..Len(calls) :
            IF i <= Len(pages)
            THEN /\ calls[i].result = Ok(Some(pages[i]))
                 /\ Len(calls[i].sent) = 1
            ELSE /\ calls[i].result = Ok(None)
                 /\ calls[i].sent = <<>>

C1_Witness ==
    /\ constructed /\ filter.ok /\ WellBehaved /\ NoInjectedFailure
    /\ Len(pages) >= 3
    /\ Len(calls) > Len(pages)
    /\ calls[Len(calls)].result = Ok(None)

(***************************************************************************)
(* C2: a call of next that made an executor call and failed leaves path    *)
(* and pending query as they were, and the call after it sends the same    *)
(* request again.                                                          *)
(***************************************************************************)
C2_FailureLeavesCursorUnchanged ==
    \A i \in 1..Len(calls) :
        (calls[i].result.tag = "Err" /\ calls[i].sent # <<>>) =>
            /\ calls[i].after.path = calls[i].before.path
            /\ calls[i].after.query = calls[i].before.query
            /\ i < Len(calls) => calls[i + 1].sent = calls[i].sent

(***************************************************************************)
(* C3: whatever exchanges fail, next returns Ok(None) only after a page    *)
(* that reported no further pages was returned, and the pages returned     *)
(* are, up to repetition, a prefix of the server's pages in order.         *)
(***************************************************************************)
C3_NoPageSkipped ==
    (constructed /\ filter.ok) =>
        /\ \A i \in 1..Len(calls) :
            calls[i].result = Ok(None) =>
                \E j \in 1..(i - 1) :
                    IsPage(calls[j].result) /\ NoMore(calls[j].result.val.val)
        /\ \A i \in 1..Len(calls) :
            IsPage(calls[i].result) =>
                LET n == calls[i].result.val.val.meta.request_id
                    earlier == {j \in 1..(i - 1) : IsPage(calls[j].result)}
                IN  IF earlier = {} THEN n = 1
                    ELSE LET j == CHOOSE j \in earlier :
                                      \A l \in earlier : l <= j
                             m == calls[j].result.val.val.meta.request_id
                         IN  n \in {m, m + 1}

(***************************************************************************)
(* C4 as stated: a call of next on a cursor without a pending query        *)
(* returns Ok(None), makes no executor call and leaves the cursor without  *)
(* a pending query.                                                        *)
(***************************************************************************)
C4_NoQueryIsAbsorbing ==
    \A i \in 1..Len(calls) :
        calls[i].before.query = None =>
            /\ calls[i].result = Ok(None)
            /\ calls[i].sent = <<>>
            /\ calls[i].after.query = None

(***************************************************************************)
(* C4 amended: a call of next on a cursor with neither a pending query nor *)
(* a deferred construction error returns Ok(None), makes no executor call  *)
(* and leaves the cursor as it was.                                        *)
(***************************************************************************)
C4_ExhaustedIsAbsorbing ==
    \A i \in 1..Len(calls) :
        (calls[i].before.query = None /\ calls[i].before.error = None) =>
            /\ calls[i].result = Ok(None)
            /\ calls[i].sent = <<>>
            /\ calls[i].after = calls[i].before

C4_Witness ==
    /\ Len(calls) >= 3
    /\ IsPage(calls[Len(calls) - 2].result)
    /\ calls[Len(calls) - 1].result = Ok(None)
    /\ calls[Len(calls)].result = Ok(None)

(***************************************************************************)
(* C5: Paginated::new returns a cursor for a filter that cannot be         *)
(* serialized; the first call of next returns the serialization error and  *)
(* no executor call is made.                                               *)
(***************************************************************************)
C5_ConstructionErrorDeferred ==
    (constructed /\ ~filter.ok) =>
        /\ path = ListPath
        /\ IF calls = <<>> THEN error = Some("JsonError") /\ query = None
           ELSE /\ calls[1].result = Err("JsonError")
                /\ calls[1].sent = <<>>

C5_Witness ==
    /\ constructed /\ ~filter.ok
    /\ Len(calls) = 1
    /\ calls[1].result = Err("JsonError")

(***************************************************************************)
(* C6 as stated: whenever the executor call of next succeeds, next         *)
(* returns Ok(Some(page)) with the page of that response.                  *)
(***************************************************************************)
C6_EverySuccessReturnsPage ==
    \A i \in 1..Len(calls) :
        Succeeded(i) => calls[i].result = Ok(Some(PageOf(i)))

(***************************************************************************)
(* C6 amended: whenever the executor call of next succeeds and the         *)
(* response either reports no further page or carries a next URL that is   *)
(* absolute with a decodable query string, next returns Ok(Some(page))     *)
(* with the data and meta of that response; a page that reports no         *)
(* further page is returned by the call that fetched it, the cursor is     *)
(* then without a pending query, and the call after it returns Ok(None).   *)
(***************************************************************************)
C6_SuccessReturnsPage ==
    \A i \in 1..Len(calls) :
        (Succeeded(i) /\ (NoMore(PageOf(i)) \/ KindOf(i) \in GoodLinks)) =>
            /\ calls[i].result = Ok(Some(PageOf(i)))
            /\ calls[i].result.val.val.data = pages[PageOf(i).meta.request_id].data
            /\ calls[i].result.val.val.meta = pages[PageOf(i).meta.request_id].meta
            /\ NoMore(PageOf(i)) =>
                /\ calls[i].after.query = None
                /\ i < Len(calls) => calls[i + 1].result = Ok(None)

C6_Witness ==
    /\ Len(calls) >= 3
    /\ Succeeded(1) /\ ~NoMore(PageOf(1)) /\ IsPage(calls[1].result)
    /\ Succeeded(2) /\ NoMore(PageOf(2)) /\ IsPage(calls[2].result)
    /\ calls[3].result = Ok(None)

(***************************************************************************)
(* C7: when a success response reports has_more = true with a next URL     *)
(* that parses, the cursor's path becomes the path of that URL and its     *)
(* pending query the decoded query string of that URL; the request of the  *)
(* following call of next goes to that path with exactly the parameters of *)
(* that URL, none of the initial filter.                                   *)
(***************************************************************************)
C7_CursorFollowsNextUrl ==
    \A i \in 1..Len(calls) :
        (Succeeded(i) /\ ~NoMore(PageOf(i)) /\ KindOf(i) \in GoodLinks) =>
            LET n == PageOf(i).meta.request_id IN
            /\ calls[i].after.path = LinkPath(KindOf(i))
            /\ calls[i].after.query = Some(LinkParams(KindOf(i), n))
            /\ i < Len(calls) =>
                calls[i + 1].sent =
                    <<GetRequest(LinkPath(KindOf(i)), LinkQuery(KindOf(i), n))>>

C7_Witness ==
    /\ Len(calls) >= 2
    /\ <<"order_by">> \in DOMAIN filter.val
    /\ Succeeded(1) /\ KindOf(1) = "alt"
    /\ Len(calls[2].sent) = 1
    /\ calls[2].sent[1].url.path = AltPath
    /\ calls[2].sent[1].url.query = Some(<<"after", "=", "c1">>)

(***************************************************************************)
(* C8 as stated: with has_more = true, next succeeds and the cursor is     *)
(* pending with the path and query of the next URL, be that URL absolute   *)
(* or relative (path and query string without scheme and host).            *)
(***************************************************************************)
C8_AbsoluteOrRelativeAccepted ==
    \A i \in 1..Len(calls) :
        (Succeeded(i) /\ KindOf(i) \in {"abs", "alt", "rel"}) =>
            /\ IsPage(calls[i].result)
            /\ calls[i].after.path = LinkPath(KindOf(i))
            /\ calls[i].after.query # None
            /\ <<"after">> \in DOMAIN calls[i].after.query.val

(***************************************************************************)
(* C8 amended: with has_more = true and an absolute next URL whose query   *)
(* string decodes, next succeeds and the cursor is pending with the path   *)
(* and query of that URL; a relative next URL makes next fail with the     *)
(* URL parse error.                                                        *)
(***************************************************************************)
C8_OnlyAbsoluteAccepted ==
    \A i \in 1..Len(calls) :
        /\ (Succeeded(i) /\ KindOf(i) \in {"abs", "alt"}) =>
            /\ IsPage(calls[i].result)
            /\ calls[i].after.path = LinkPath(KindOf(i))
            /\ calls[i].after.query # None
            /\ <<"after">> \in DOMAIN calls[i].after.query.val
        /\ (Succeeded(i) /\ KindOf(i) = "rel") =>
            calls[i].result = Err("Url")

C8_Witness ==
    /\ Len(calls) >= 2
    /\ Succeeded(1) /\ KindOf(1) = "abs" /\ IsPage(calls[1].result)
    /\ Succeeded(2) /\ KindOf(2) = "rel" /\ calls[2].result = Err("Url")

(***************************************************************************)
(* C9: all() on a fresh cursor over k pages of sizes n_1..n_k, with no     *)
(* failing exchange, returns the items of the pages 1..k concatenated in   *)
(* page order, n_1 + ... + n_k items, and makes the executor calls of a    *)
(* drain with next: one request per page, in order, and none after the     *)
(* last page.                                                              *)
(***************************************************************************)
RECURSIVE SumSizes(_)
SumSizes(i) == IF i = 0 THEN 0 ELSE Len(pages[i].data) + SumSizes(i - 1)

AllItems == Flatten([i \in 1..Len(pages) |-> pages[i].data])

C9_AllConcatenatesPages ==
    (/\ allState = "done"
     /\ filter.ok /\ WellBehaved /\ NoInjectedFailure
     /\ \A i \in 1..Len(calls) : calls[i].by = "all") =>
        /\ allResult = Some(Ok(AllItems))
        /\ Len(allResult.val.val) = SumSizes(Len(pages))
        /\ Len(calls) = Len(pages) + 1
        /\ \A i \in 1..Len(pages) : calls[i].sent = <<PageRequest(i)>>
        /\ calls[Len(calls)].sent = <<>>

C9_Witness ==
    /\ allState = "done"
    /\ filter.ok /\ WellBehaved /\ NoInjectedFailure
    /\ \A i \in 1..Len(calls) : calls[i].by = "all"
    /\ Len(pages) = 3
    /\ Len(pages[1].data) = 2 /\ Len(pages[2].data) = 0
    /\ Len(pages[3].data) = 1
    /\ allResult = Some(Ok(<< <<1, 1>>, <<1, 2>>, <<3, 1>> >>))

(***************************************************************************)
(* C10: Paddle::unmarshal runs parse, verify, deserialize in this order    *)
(* and stops at the first step that fails, with that step's outcome; it    *)
(* returns an Event only for a well-formed header whose MAC is the         *)
(* sender's MAC of this body under this secret and which is fresh, and     *)
(* it deserializes the body in no other case.                              *)
(***************************************************************************)
Authentic(c) ==
    /\ c.header.form = "good" /\ c.header.intact
    /\ c.header.key = c.secret /\ c.header.body = c.body

Fresh(c) ==
    \/ c.maximum_variance = None
    \/ c.now.secs < SignedAt + c.maximum_variance.val
    \/ c.now.secs = SignedAt + c.maximum_variance.val /\ c.now.frac = 0

C10_UnmarshalVerifiesBeforeDeserializing ==
    (hook # None /\ hook.val.steps # <<>>) =>
        LET c == hook.val IN
        /\ c.steps \in {<<"parse">>, <<"parse", "verify">>,
                        <<"parse", "verify", "deserialize">>}
        /\ c.result.tag = "Ok" =>
            /\ Authentic(c) /\ Fresh(c)
            /\ c.steps = <<"parse", "verify", "deserialize">>
        /\ c.header.form # "good" =>
            c.steps = <<"parse">> /\ c.result.tag # "Ok"
        /\ (c.header.form = "good" /\ ~(Authentic(c) /\ Fresh(c))) =>
            /\ c.steps = <<"parse", "verify">>
            /\ c.result.tag = "Err"
            /\ c.result.kind \in {"MacError",
                                  "PaddleSignature::MaxVarianceExceeded"}
        /\ (Authentic(c) /\ Fresh(c)) =>
            c.steps = <<"parse", "verify", "deserialize">>

C10_Witness ==
    /\ hook # None
    /\ hook.val.result = Ok([event_type |-> "customer.created"])
    /\ hook.val.maximum_variance = Some(DefaultVariance)
    /\ hook.val.steps = <<"parse", "verify", "deserialize">>

(***************************************************************************)
(* Signature::verify: what the claims C11 to C13 speak about               *)
(***************************************************************************)
\* the call of verify has returned
Verified == check # None /\ check.val.result # None

\* now is later than t + n seconds
StaleBy(now, t, n) ==
    \/ now.secs > t + n
    \/ now.secs = t + n /\ now.frac > 0

Stale(c) ==
    /\ c.maximum_variance # None
    /\ StaleBy(c.now, c.sig.timestamp, c.maximum_variance.val)

\* the signature carries, undamaged, the sender's MAC of this body under
\* this key at the signature's own timestamp
Genuine(c) ==
    /\ c.made.how = "intact"
    /\ c.made.key = c.key
    /\ c.made.ts = c.sig.timestamp
    /\ c.made.body = c.body

MaxVarianceExceeded(n) ==
    [tag |-> "Err", kind |-> "PaddleSignature::MaxVarianceExceeded",
     bound |-> n]

(***************************************************************************)
(* C11: a signature that is stale under the configured bound and carries   *)
(* a wrong MAC is rejected with MaxVarianceExceeded carrying that bound,   *)
(* never with the MAC-mismatch error.                                      *)
(***************************************************************************)
C11_StalenessDecidedBeforeMac ==
    (Verified /\ Stale(check.val) /\ ~Genuine(check.val)) =>
        check.val.result.val
            = MaxVarianceExceeded(check.val.maximum_variance.val)

C11_Witness ==
    /\ Verified
    /\ check.val.maximum_variance = Some(DefaultVariance)
    /\ Stale(check.val)
    /\ check.val.made.how = "changed"
    /\ check.val.result.val = MaxVarianceExceeded(DefaultVariance)

(***************************************************************************)
(* C12: with a bound of N seconds and timestamp T, verify fails with       *)
(* MaxVarianceExceeded exactly when now > T + N (now = T + N is accepted); *)
(* without a bound there is no staleness failure, and a genuine signature  *)
(* verifies however old its timestamp is.                                  *)
(***************************************************************************)
C12_StaleExactlyPastBound ==
    Verified =>
        LET c == check.val IN
        /\ c.maximum_variance # None =>
            ((c.result.val = MaxVarianceExceeded(c.maximum_variance.val))
                <=> StaleBy(c.now, c.sig.timestamp, c.maximum_variance.val))
        /\ c.maximum_variance = None =>
            /\ c.result.val.tag = "Err" =>
                c.result.val.kind # "PaddleSignature::MaxVarianceExceeded"
            /\ Genuine(c) => c.result.val = Ok(<<>>)

C12_Witness ==
    /\ Verified
    /\ check.val.maximum_variance = None
    /\ check.val.sig.timestamp = 0
    /\ check.val.now.secs > SignedAt
    /\ check.val.result.val = Ok(<<>>)

(***************************************************************************)
(* C13: when the freshness check passes or is disabled, verify succeeds    *)
(* if and only if the MAC bytes are the HMAC-SHA256 of "<ts>:<body>" under *)
(* the secret, <ts> the decimal seconds of the signature's timestamp: a    *)
(* MAC made for another body, secret or timestamp, or damaged, fails.      *)
(***************************************************************************)
C13_VerifiesExactlyTheSendersMac ==
    (Verified /\ ~Stale(check.val)) =>
        ((check.val.result.val = Ok(<<>>)) <=> Genuine(check.val))

C13_Witness ==
    /\ Verified
    /\ ~Stale(check.val)
    /\ check.val.made.how = "intact"
    /\ check.val.made.key = check.val.key
    /\ check.val.made.ts = check.val.sig.timestamp
    /\ check.val.made.body # check.val.body
    /\ check.val.result.val = Err("MacError")

(***************************************************************************)
(* Signature::from_str: what the claims C14 to C20 speak about             *)
(***************************************************************************)
\* the call of from_str on the header has returned
Parsed == parsed # None /\ parsed.val.result # None

RECURSIVE CountOf(_, _)
CountOf(text, c) ==
    IF Len(text) = 0 THEN 0
    ELSE (IF Head(text) = c THEN 1 ELSE 0) + CountOf(Tail(text), c)

\* a part ts=<n> with n a decimal integer; a part h1=<anything>
IsTsPart(q) == q.eqs = 1 /\ q.key = TsKey /\ q.val.int # None
IsH1Part(q) == q.eqs = 1 /\ q.key = H1Key

\* the parts are ts=<n> and h1=<value>, in this or the other order
TsAndH1(ps) ==
    /\ Len(ps) = 2
    /\ \/ IsTsPart(ps[1]) /\ IsH1Part(ps[2])
       \/ IsH1Part(ps[1]) /\ IsTsPart(ps[2])

(***************************************************************************)
(* C14: for a header ts=<n>;h1=<hex>, n a decimal integer and hex a        *)
(* string of hex-digit pairs, from_str succeeds and the Signature holds    *)
(* the timestamp n and the bytes hex encodes, in order.                    *)
(***************************************************************************)
C14_WellFormedHeaderRoundTrips ==
    (/\ Parsed
     /\ Len(parsed.val.parts) = 2
     /\ IsTsPart(parsed.val.parts[1])
     /\ IsH1Part(parsed.val.parts[2])
     /\ parsed.val.parts[2].val.hex.tag = "Some") =>
        parsed.val.result.val
            = Ok([timestamp |-> parsed.val.parts[1].val.int.val,
                  signature |-> parsed.val.parts[2].val.hex.val])

C14_Witness ==
    /\ Parsed
    /\ parsed.val.text = TsPart(SignedAt) \o <<";">> \o H1Part(<<171, 255>>)
    /\ parsed.val.result.val
        = Ok([timestamp |-> SignedAt, signature |-> <<171, 255>>])

(***************************************************************************)
(* C15: from_str fails with Empty on the empty string and with             *)
(* InvalidFormat on every non-empty input that does not have exactly one   *)
(* ";" (none, or two or more).                                             *)
(***************************************************************************)
C15_EmptyAndWrongPartCount ==
    Parsed =>
        /\ parsed.val.text = <<>> =>
            parsed.val.result.val = Err("PaddleSignature::Empty")
        /\ (parsed.val.text # <<>> /\ CountOf(parsed.val.text, ";") # 1) =>
            parsed.val.result.val = Err("PaddleSignature::InvalidFormat")

C15_Witness ==
    /\ Parsed
    /\ CountOf(parsed.val.text, ";") = 2
    /\ TsAndH1(SubSeq(parsed.val.parts, 1, 2))
    /\ parsed.val.result.val = Err("PaddleSignature::InvalidFormat")

(***************************************************************************)
(* C16: a header of two parts, one of which has no "=" or more than one,   *)
(* fails with InvalidPartFormat whatever the other part holds.             *)
(***************************************************************************)
C16_MalformedPartIsInvalidPartFormat ==
    (/\ Parsed
     /\ Len(parsed.val.parts) = 2
     /\ \E i \in 1..2 : parsed.val.parts[i].eqs # 1) =>
        parsed.val.result.val = Err("PaddleSignature::InvalidPartFormat")

(***************************************************************************)
(* C17: a header of two key=value parts that does not hold both an         *)
(* integer under ts and a value under h1 fails with ParseError; this       *)
(* includes parts with unrecognized keys, which raise no error of their    *)
(* own.                                                                    *)
(***************************************************************************)
C17_MissingFieldIsParseError ==
    (/\ Parsed
     /\ Len(parsed.val.parts) = 2
     /\ \A i \in 1..2 : parsed.val.parts[i].eqs = 1
     /\ ~TsAndH1(parsed.val.parts)) =>
        parsed.val.result.val = Err("PaddleSignature::ParseError")

(***************************************************************************)
(* C18: for every value n and every value hex (well-formed or not, but    *)
(* holding no ";" and no "="), h1=<hex>;ts=<n> is parsed to the same       *)
(* Signature or fails with the same error as ts=<n>;h1=<hex>.              *)
(***************************************************************************)
C18_FieldOrderIsIrrelevant ==
    (/\ Parsed
     /\ parsed.val.swapped # None
     /\ Len(parsed.val.parts) = 2
     /\ parsed.val.parts[1].eqs = 1 /\ parsed.val.parts[1].key = TsKey
     /\ parsed.val.parts[2].eqs = 1 /\ parsed.val.parts[2].key = H1Key) =>
        parsed.val.swapped.val = parsed.val.result.val

C18_Witness ==
    /\ Parsed
    /\ parsed.val.swapped # None
    /\ parsed.val.text = TsPart(SignedAt) \o <<";">> \o H1Part(<<171, 255>>)
    /\ parsed.val.swapped.val
        = Ok([timestamp |-> SignedAt, signature |-> <<171, 255>>])
    /\ parsed.val.swapped.val = parsed.val.result.val

(***************************************************************************)
(* C19: from_str returns a Signature or an error on every input; for a     *)
(* header ts=<n>;h1=<value> whose value is not a string of hex-digit       *)
(* pairs (a pair is not hex, or a digit is left over) it returns the       *)
(* integer-parse error.                                                    *)
(***************************************************************************)
C19_AlwaysReturnsSignatureOrError ==
    Parsed =>
        /\ parsed.val.result.val.tag \in {"Ok", "Err"}
        /\ (/\ Len(parsed.val.parts) = 2
            /\ IsTsPart(parsed.val.parts[1])
            /\ IsH1Part(parsed.val.parts[2])
            /\ parsed.val.parts[2].val.hex.tag # "Some") =>
                parsed.val.result.val = Err("ParseIntError")

(***************************************************************************)
(* C20: a header whose only defect is in its ts or in the structure of     *)
(* its parts never fails with an error kind that a header whose only       *)
(* defect is a non-hex h1 value fails with.                                *)
(***************************************************************************)
\* headers ts=<n>;h1=<value>, in either order, whose only defect is a pair
\* in the value that is not two hex digits
HexDefectHeaders ==
    LET ts == {q \in KvParts : IsTsPart(q)}
        h1 == {q \in KvParts : IsH1Part(q) /\ q.val.hex = NotHex}
    IN  {<<a, b>> : a \in ts, b \in h1} \cup {<<b, a>> : a \in ts, b \in h1}

HexFailureKinds ==
    { SigFromStr(HeaderText(ps)).kind :
        ps \in {q \in HexDefectHeaders : SigFromStr(HeaderText(q)).tag = "Err"} }

\* the header is not ts=<n>;h1=<value>, and whatever it holds under h1 is a
\* string of hex-digit pairs
FormatDefectOnly(ps) ==
    /\ ~TsAndH1(ps)
    /\ \A i \in 1..Len(ps) : IsH1Part(ps[i]) => ps[i].val.hex.tag = "Some"

C20_HexFailureKindIsDistinct ==
    (Parsed /\ FormatDefectOnly(parsed.val.parts)) =>
        /\ parsed.val.result.val.tag = "Err"
        /\ parsed.val.result.val.kind \notin HexFailureKinds

(***************************************************************************)
(* C21: Paddle::unmarshal reports a body that is no Event (an unknown      *)
(* event_type included) with an error kind it returns for no failure of    *)
(* the signature's parse, freshness or MAC, and it returns that kind only  *)
(* after the verification has succeeded.                                   *)
(***************************************************************************)
\* the bodies that are an Event
EventBodies == {b \in Bodies : b = <<"{", "customer.created", "}">>}

\* the error kinds of the steps before the deserialization
SignatureFailureKinds ==
    {"PaddleSignature::Empty", "PaddleSignature::InvalidFormat",
     "PaddleSignature::InvalidPartFormat", "PaddleSignature::ParseError",
     "PaddleSignature::MaxVarianceExceeded", "ParseIntError", "MacError"}

Unmarshalled == hook # None /\ hook.val.steps # <<>>

C21_DeserializationFailureIsDistinct ==
    Unmarshalled =>
        LET c == hook.val IN
        /\ (c.result.tag = "Err" /\ c.result.kind \notin SignatureFailureKinds) =>
            /\ c.steps = <<"parse", "verify", "deserialize">>
            /\ Authentic(c) /\ Fresh(c)
            /\ c.body \notin EventBodies
        /\ (Authentic(c) /\ Fresh(c) /\ c.body \notin EventBodies) =>
            /\ c.result.tag = "Err"
            /\ c.result.kind \notin SignatureFailureKinds
        /\ (c.steps # <<"parse", "verify", "deserialize">>
            /\ c.result.tag = "Err") =>
                c.result.kind \in SignatureFailureKinds

C21_Witness ==
    /\ Unmarshalled
    /\ Authentic(hook.val) /\ Fresh(hook.val)
    /\ hook.val.body = <<"{", "future.event", "}">>
    /\ hook.val.steps = <<"parse", "verify", "deserialize">>
    /\ hook.val.result = Err("JsonError")

(***************************************************************************)
(* C22: two cursors over one client whose calls of next are interleaved    *)
(* in any order do not interact: the requests, results and state changes   *)
(* of each cursor are those of the same cursor drained alone (with the     *)
(* same outcomes of its HTTP exchanges).                                   *)
(***************************************************************************)
\* the calls of a cursor that starts as c and is drained alone, the HTTP
\* exchanges ending as nets tells
RECURSIVE SoloLog(_, _, _)
SoloLog(c, pgs, nets) ==
    IF Len(nets) = 0 THEN <<>>
    ELSE LET r == NextCall(c, pgs, Head(nets))
         IN  <<PairRecord(c, r)>> \o SoloLog(r.cur, pgs, Tail(nets))

\* how the exchanges of the calls of a log ended; a call that made no
\* exchange reports "none", and alone it makes none whatever the network
NetsOf(log) == [k \in 1..Len(log) |-> IF log[k].net = "none" THEN "ok"
                                       ELSE log[k].net]

RECURSIVE SentUpTo(_)
SentUpTo(i) == IF i = 0 THEN 0 ELSE Len(calls[i].sent) + SentUpTo(i - 1)

C24_AtMostOneGetPerCall ==
    /\ SentUpTo(Len(calls)) <= Len(calls)
    /\ \A i \in 1..Len(calls) :
        /\ Len(calls[i].sent) <= 1
        /\ Len(calls[i].sent) = 1 =>
            /\ calls[i].before.error = None
            /\ calls[i].before.query # None
            /\ calls[i].sent[1].method = "GET"
            /\ calls[i].sent[1].url.query
                = Some(QsToString(calls[i].before.query.val))
            /\ [calls[i].sent[1].url EXCEPT !.query = None]
                = UrlJoin(BaseUrl, calls[i].before.path).val
            /\ calls[i].before.path \in ServerPaths =>
                calls[i].sent[1].url.path = calls[i].before.path
            /\ i = 1 => calls[i].sent[1] = GetRequest(ListPath, FilterQuery)
        /\ (calls[i].before.error # None \/ calls[i].before.query = None) =>
            calls[i].sent = <<>>

C24_Witness ==
    /\ Len(calls) = 3
    /\ calls[1].sent = <<GetRequest(ListPath, FilterQuery)>>
    /\ <<"per_page">> \in DOMAIN filter.val
    /\ calls[2].sent = <<GetRequest(AltPath, <<"after", "=", "c1">>)>>
    /\ calls[3].sent = <<>>
    /\ SentUpTo(3) = 2

(***************************************************************************)
(* C25: when a success response has no pagination metadata, next returns  *)
(* that page and the cursor is exhausted (no pending query, path as it     *)
(* was), as after has_more = false: the following call returns Ok(None)    *)
(* with no executor call.                                                  *)
(***************************************************************************)
C25_NoPaginationMetadataExhausts ==
    \A i \in 1..Len(calls) :
        (Succeeded(i) /\ PageOf(i).meta.pagination = None) =>
            /\ calls[i].result = Ok(Some(PageOf(i)))
            /\ calls[i].after = [calls[i].before EXCEPT !.query = None]
            /\ i < Len(calls) =>
                /\ calls[i + 1].result = Ok(None)
                /\ calls[i + 1].sent = <<>>

C25_Witness ==
    /\ Len(calls) >= 3
    /\ Succeeded(2) /\ KindOf(2) = "none"
    /\ calls[2].result = Ok(Some(pages[2]))
    /\ calls[2].after.query = None
    /\ calls[3].result = Ok(None)

(***************************************************************************)
(* C26: when a success response reports has_more = false its next URL is   *)
(* not parsed: be it empty, malformed or a URL with another path, the      *)
(* call returns the page without error, the cursor's path stays as it was  *)
(* and no query is pending.                                                *)
(***************************************************************************)
C26_LastPageLinkIsNotParsed ==
    \A i \in 1..Len(calls) :
        (/\ Succeeded(i)
         /\ PageOf(i).meta.pagination # None
         /\ ~PageOf(i).meta.pagination.val.has_more) =>
            /\ calls[i].result = Ok(Some(PageOf(i)))
            /\ calls[i].after.path = calls[i].before.path
            /\ calls[i].after.query = None
            /\ calls[i].after.error = None

C26_Witness ==
    /\ Len(calls) >= 2
    /\ Succeeded(1) /\ KindOf(1) = "abs"
    /\ Succeeded(2) /\ KindOf(2) = "lastbad"
    /\ PageOf(2).meta.pagination.val.next = <<>>
    /\ calls[2].result = Ok(Some(pages[2]))
    /\ calls[2].after.path = calls[2].before.path

(***************************************************************************)
(* C27: the construction error is returned once: the first call of next    *)
(* on a cursor whose filter could not be serialized returns it, every      *)
(* later call returns Ok(None), and no call of such a cursor makes an      *)
(* executor call.                                                          *)
(***************************************************************************)
C27_ConstructionErrorSurfacesOnce ==
    (constructed /\ ~filter.ok) =>
        \A i \in 1..Len(calls) :
            /\ calls[i].sent = <<>>
            /\ calls[i].result = IF i = 1 THEN Err("JsonError") ELSE Ok(None)
            /\ calls[i].after.error = None
            /\ calls[i].after.query = None

C27_Witness ==
    /\ constructed /\ ~filter.ok
    /\ Len(calls) >= 3
    /\ calls[1].result = Err("JsonError")
    /\ calls[2].result = Ok(None)
    /\ calls[3].result = Ok(None)

(***************************************************************************)
(* C28: a cursor never holds a pending query and a pending construction    *)
(* error together: Paginated::new sets exactly one of the two, and no call *)
(* of next sets the error, nor sets the query while the error is pending.  *)
(***************************************************************************)
C28_QueryAndErrorExclusive ==
    constructed =>
        /\ ~(query # None /\ error # None)
        /\ calls = <<>> => ((query # None) <=> (error = None))
        /\ \A i \in 1..Len(calls) :
            /\ ~(calls[i].before.query # None /\ calls[i].before.error # None)
            /\ calls[i].after.error = None
            /\ calls[i].before.error # None => calls[i].after.query = None

C28_Witness ==
    /\ constructed
    /\ Len(calls) = 1
    /\ calls[1].before.error = Some("JsonError")
    /\ calls[1].before.query = None
    /\ error = None /\ query = None

(***************************************************************************)
(* C29: the cursor keeps only the path and the query string of a next      *)
(* URL, so every request of a cursor, those that follow a next link        *)
(* included, is sent to the scheme and host of the client's base URL.      *)
(***************************************************************************)
C29_RequestsStayOnBaseUrl ==
    \A i \in 1..Len(calls) :
        \A k \in 1..Len(calls[i].sent) :
            /\ calls[i].sent[k].url.scheme = BaseUrl.scheme
            /\ calls[i].sent[k].url.host = BaseUrl.host

(***************************************************************************)
(* C30 as stated: a signature whose timestamp is later than now, by any    *)
(* amount, never fails with MaxVarianceExceeded, whatever the configured   *)
(* bound, and is accepted or rejected by the MAC comparison alone.         *)
(***************************************************************************)
\* the signature's timestamp (whole seconds) is later than now
FromTheFuture(c) == c.sig.timestamp > c.now.secs

C30_FutureTimestampNeverStale ==
    (Verified /\ FromTheFuture(check.val)) =>
        check.val.result.val
            = IF Genuine(check.val) THEN Ok(<<>>) ELSE Err("MacError")

(***************************************************************************)
(* C30 amended: with no bound or a bound that is not negative, a signature *)
(* whose timestamp is later than now, by any amount, never fails with      *)
(* MaxVarianceExceeded and is accepted or rejected by the MAC comparison   *)
(* alone.                                                                  *)
(***************************************************************************)
C30_FutureTimestampNeverStaleForBoundsFromZero ==
    (/\ Verified /\ FromTheFuture(check.val)
     /\ check.val.maximum_variance # None => check.val.maximum_variance.val >= 0)
        => check.val.result.val
            = IF Genuine(check.val) THEN Ok(<<>>) ELSE Err("MacError")

C30_Witness ==
    /\ Verified
    /\ check.val.sig.timestamp = 2 * SignedAt
    /\ check.val.maximum_variance = Some(0)
    /\ Genuine(check.val)
    /\ check.val.result.val = Ok(<<>>)

====
